---- MODULE Spec2Model ----
(***************************************************************************)
(* State-machine model of the recursive best-guess synthesis search of     *)
(* src/src/recursive_synthesis.py (class RecursiveSynthesisSearch).        *)
(*                                                                         *)
(* Numbers: a confidence c is the integer 1000*c (per mille); a threshold  *)
(* and a score are exact fractions [num, den], compared by cross           *)
(* multiplication, so no comparison of the code is rounded away.           *)
(* The two capabilities the engine consumes (similarity lookup and recipe  *)
(* lookup of self.agent) are the environment: each call draws its outcome  *)
(* (a list, or an exception) from a bounded set.                           *)
(***************************************************************************)
EXTENDS Integers, Sequences, FiniteSets, TLC

(* ------------------------------ bounds -------------------------------- *)
\* number of materials of the reference corpus
NumMaterials == 3
\* largest number of recipes one recipe lookup returns
MaxRecipes == 4
\* longest list one similarity lookup returns
MaxReturned == 2
\* number of materials the aggregation is run on (SpecAgg)
NumAggMaterials == 7
\* corpus entries of the specification the termination property is checked under
NumFairMaterials == 2
\* the confidences the scoring is applied to are the multiples of 1/NumScoreLevels
NumScoreLevels == 20
\* the largest amount of an element in a formula
MaxAmount == 2

(* ------------------------- program constants -------------------------- *)
DefaultMaxDepth == 3
DefaultMinConfidence == 700
DefaultConfidenceDecay == 85
DefaultMaxNeighborsPerLevel == 10
DefaultNInitialNeighbors == 30
RecipesPerMaterial == 3
TopMaterials == 5
MinChildNeighbors == 5
PathPenaltyInverse == 5
VeryHighAbove == 950
HighAbove == 850
ModerateAbove == 750
ConfidenceUnit == 1000
DecayUnit == 100

(* --------------------------- environment ------------------------------ *)
Materials == 1 .. NumMaterials
\* material_id of the synthetic root node, "target" in the source
TargetId == 0
\* the formula searched for; no corpus entry has it
TargetFormula == 0
\* confidences (per mille) a neighbor can carry
ConfLevels == {990, 850, 750}
\* distance (in 1/1000) of a neighbor of confidence c: -3 ln c
DistanceOf(c) ==
  CASE c = 990 -> 30 [] c = 850 -> 488 [] c = 730 -> 944 [] c = 710 -> 1027
    [] c = 650 -> 1292 [] OTHER -> 863

DefaultTunables ==
  [max_depth |-> DefaultMaxDepth, min_confidence |-> DefaultMinConfidence,
   confidence_decay |-> DefaultConfidenceDecay,
   max_neighbors_per_level |-> DefaultMaxNeighborsPerLevel]
\* the constructor arguments the model runs the engine with
Tunables ==
  {DefaultTunables,
   [max_depth |-> 2, min_confidence |-> 900, confidence_decay |-> 85,
    max_neighbors_per_level |-> 1]}
\* the n_initial_neighbors arguments of search
NInitialChoices == {1, DefaultNInitialNeighbors}

Min(a, b) == IF a < b THEN a ELSE b
Max(a, b) == IF a > b THEN a ELSE b

\* what a similarity lookup can return: material ids are distinct (one corpus
\* entry each) and the order is ascending distance, i.e. descending confidence
NeighborListsOf(levels) ==
  UNION {{s \in [1 .. k -> Materials \X levels] :
            /\ \A i, j \in 1 .. k : i < j => s[i][1] # s[j][1]
            /\ \A i \in 1 .. k : i < k => s[i][2] >= s[i + 1][2]}
         : k \in 0 .. Min(MaxReturned, NumMaterials)}

RawNeighborLists == NeighborListsOf(ConfLevels)
\* outcomes of find_similar_materials_by_composition(formula, n_neighbors)
\* the exceptions a similarity lookup can raise: the input is of the wrong kind
\* (the ValueError of get_embedding), the index cannot be used, or anything else
LookupErrors == {"InvalidInputKind", "IndexUnavailable", "LookupFailed"}

SimOutcomesOf(lists, n_neighbors, corpus) ==
  {[raised |-> TRUE, error |-> e, list |-> << >>] : e \in LookupErrors} \cup
  {[raised |-> FALSE, error |-> "none", list |-> s] :
     s \in {r \in lists :
              Len(r) <= n_neighbors /\ \A i \in 1 .. Len(r) : r[i][1] \in corpus}}

SimOutcomes(n_neighbors, corpus) == SimOutcomesOf(RawNeighborLists, n_neighbors, corpus)
\* outcomes of get_synthesis_recipes_by_formula(formula): an exception (-1), no
\* recipe, or MaxRecipes recipes (more than the code keeps); recipe i of a
\* formula is the record i
RecipeOutcomes == {-1, 0, MaxRecipes}

(* ------------------------------- state -------------------------------- *)
VARIABLES
  tunables,           \* max_depth, min_confidence, confidence_decay, max_neighbors_per_level
  formulas,           \* the corpus: material_id -> formula
  visited,            \* self.visited
  recipe_candidates,  \* self.recipe_candidates
  pc,                 \* "idle", "running" (inside search), "done" (search returned), "raised"
  call,               \* the _recursive_search invocation about to run
  stack,              \* the suspended _recursive_search invocations (their for loops)
  result,             \* what search returned
  last,               \* the last progress line printed: its kind, the node it is about, and
                      \* whether the lookup made for it returned a material visited before
  explore_count,      \* per material: how often lines 172-188 ran for it
  direct_hits,        \* the children of the root node that have confidence 0.99
  recipe_raised,      \* a recipe lookup of this search raised
  arg,                \* the argument of the function a function-level specification applies
  ret,                \* what that function returned
  parked,             \* a second thread calling search: its position, and its engine
                      \* when it has one of its own
  shared              \* the second thread calls search on the same engine instance

vars == << tunables, formulas, visited, recipe_candidates, pc, call, stack, result,
           last, explore_count, direct_hits, recipe_raised, arg, ret, parked, shared >>

\* what the constructor fixes, and what only the function-level specifications
\* and the two-thread specification use
fixed == << tunables, formulas, arg, ret, parked, shared >>
\* there is no second thread
SingleThread == parked = [kind |-> "none"] /\ shared = FALSE
NoValue == [kind |-> "none"]

NoCall == [kind |-> "none"]
NoLine == [msg |-> "none"]
NoResult == [status |-> "none"]
One == [num |-> 1, den |-> 1]

(* ----------------------------- SearchNode ----------------------------- *)
Root(target_formula) ==
  [material_id |-> TargetId, formula |-> target_formula, confidence |-> ConfidenceUnit,
   distance |-> 0, depth |-> 0]

\* mutant: confidence and distance are accumulated along the path
ChildNodeAlongPath(node, neighbor) ==
  [material_id |-> neighbor.material_id, formula |-> neighbor.formula,
   confidence |-> (node.confidence * neighbor.confidence) \div ConfidenceUnit,
   distance |-> node.distance + neighbor.distance,
   depth |-> node.depth + 1]

\* SearchNode(material_id=neighbor.material_id, ..., depth=node.depth + 1)   (lines 209-216)
ChildNode(node, neighbor) ==
  [material_id |-> neighbor.material_id, formula |-> neighbor.formula,
   confidence |-> neighbor.confidence, distance |-> neighbor.distance,
   depth |-> node.depth + 1]

Neighbor(pair) ==
  [material_id |-> pair[1], formula |-> formulas[pair[1]], confidence |-> pair[2],
   distance |-> DistanceOf(pair[2])]

(* ------------------------ _recursive_search --------------------------- *)
\* mutant: the depth check is off by one
DepthExceededOffByOne(node) == node.depth > tunables.max_depth

DepthExceeded(node) == node.depth >= tunables.max_depth

ConfidenceTooLow(node) == node.confidence < tunables.min_confidence

\* mutant: the root exemption is inverted, so the check never stops a material
AlreadyVisitedRootOnly(node) == node.material_id \in visited /\ node.material_id = TargetId

AlreadyVisited(node) == node.material_id \in visited /\ node.material_id # TargetId

\* mutant: the node is not added to the visited set
MarkVisitedNever(node) == visited

MarkVisited(node) ==
  IF node.material_id # TargetId THEN visited \cup {node.material_id} ELSE visited

RECURSIVE Gcd(_, _)
Gcd(a, b) == IF b = 0 THEN a ELSE Gcd(b, a % b)

\* the fraction num/den in lowest terms
Fraction(num, den) == [num |-> num \div Gcd(num, den), den |-> den \div Gcd(num, den)]

\* mutant: every level applies the bar of the root
AdmissionThresholdOfRoot(threshold) == Fraction(tunables.confidence_decay, DecayUnit)

\* confidence_threshold * self.confidence_decay of the filter (line 197)
AdmissionThreshold(threshold) ==
  Fraction(threshold.num * tunables.confidence_decay, threshold.den * DecayUnit)

\* mutant: the recursive call passes the threshold on undecayed
ChildThresholdUndecayed(threshold) == threshold

\* confidence_threshold * self.confidence_decay of the recursive call (line 223)
ChildThreshold(threshold) ==
  Fraction(threshold.num * tunables.confidence_decay, threshold.den * DecayUnit)

\* confidence c (per mille) >= the fraction t
AtLeast(c, t) == c * t.den >= ConfidenceUnit * t.num

\* mutant: the confidence of a neighbor is not looked at
AdmissibleWhateverConfidence(n, threshold, seen) == n.material_id \notin seen

\* n.confidence >= confidence_threshold * self.confidence_decay and n.material_id not in self.visited
Admissible(n, threshold, seen) ==
  /\ AtLeast(n.confidence, AdmissionThreshold(threshold))
  /\ n.material_id \notin seen

FilterNeighbors(neighbors, threshold, seen) ==
  SelectSeq(neighbors, LAMBDA n : Admissible(n, threshold, seen))

\* mutant: the filtered list is not cut
LimitNeighborsUncut(filtered) == filtered

\* filtered_neighbors[:self.max_neighbors_per_level]
LimitNeighbors(filtered) ==
  SubSeq(filtered, 1, Min(Len(filtered), tunables.max_neighbors_per_level))

ChildNeighbors(n_neighbors) == Max(MinChildNeighbors, n_neighbors \div 2)

\* the recursive call made for one neighbor of the for loop of frame f
ChildCall(f, neighbor) ==
  [kind |-> "call", node |-> ChildNode(f.node, neighbor),
   n_neighbors |-> ChildNeighbors(f.n_neighbors),
   confidence_threshold |-> ChildThreshold(f.confidence_threshold)]

\* returns propagate: drop the invocations whose for loop is exhausted
RECURSIVE Unwind(_)
Unwind(stk) ==
  IF stk = << >> THEN << >>
  ELSE IF stk[Len(stk)].pending = << >> THEN Unwind(SubSeq(stk, 1, Len(stk) - 1))
  ELSE stk

\* mutant: the for loop does not move on to its next neighbor
ResumeWithoutAdvance(stk) ==
  LET u == Unwind(stk) IN
  IF u = << >> THEN [pc |-> "running", stack |-> << >>, call |-> NoCall]
  ELSE LET f == u[Len(u)] IN
       [pc |-> "running", stack |-> u, call |-> ChildCall(f, Head(f.pending))]

\* control after an invocation returned or suspended: the innermost for loop
\* that has a neighbor left makes its next recursive call
Resume(stk) ==
  LET u == Unwind(stk) IN
  IF u = << >> THEN [pc |-> "running", stack |-> << >>, call |-> NoCall]
  ELSE LET f == u[Len(u)] IN
       [pc |-> "running",
        stack |-> [u EXCEPT ![Len(u)].pending = Tail(f.pending)],
        call |-> ChildCall(f, Head(f.pending))]

\* mutant: the exception of the similarity lookup is not caught
OnLookupErrorPropagates(stk) == [pc |-> "raised", stack |-> << >>, call |-> NoCall]

\* except Exception: ... return   (lines 189-192)
OnLookupError(stk) == Resume(stk)

\* lines 194-224: filter, limit, and loop over the children
OnNeighbors(c, neighbors, seen, stk) ==
  Resume(Append(stk,
    [node |-> c.node, n_neighbors |-> c.n_neighbors,
     confidence_threshold |-> c.confidence_threshold,
     pending |-> LimitNeighbors(FilterNeighbors(neighbors, c.confidence_threshold, seen))]))

(* --------------------------- _check_recipes --------------------------- *)
Candidate(node, recipe) ==
  [material_id |-> node.material_id, formula |-> node.formula, recipe |-> recipe,
   confidence |-> node.confidence, distance |-> node.distance,
   path_length |-> node.depth]

\* mutant: every recipe returned is kept
KeptRecipesAll(r) == r

\* len(recipes[:3]) for a lookup that returned r recipes
KeptRecipes(r) == Min(r, RecipesPerMaterial)

\* mutant: the recipes found for the node are dropped
NoNewCandidates(node, r) == << >>

\* the candidates appended for a node whose recipe lookup had outcome r
NewCandidates(node, r) ==
  IF r <= 0 THEN << >>
  ELSE [i \in 1 .. KeptRecipes(r) |-> Candidate(node, i)]

\* mutant: the root is recipe-checked like any node
CheckRecipesAtRoot(node, r) == recipe_candidates \o NewCandidates(node, r)

\* if node.material_id != "target": self._check_recipes(node)   (lines 180-181)
CheckRecipes(node, r) ==
  IF node.material_id # TargetId THEN recipe_candidates \o NewCandidates(node, r)
  ELSE recipe_candidates

\* mutant: the exception of the recipe lookup is not caught
AfterCheckRecipesUncaught(node, r, ctl) ==
  IF node.material_id # TargetId /\ r < 0
  THEN [pc |-> "raised", stack |-> << >>, call |-> NoCall]
  ELSE ctl

\* control after _check_recipes: its except Exception (lines 254-256) only
\* prints, so _recursive_search goes on to its similarity lookup
AfterCheckRecipes(node, r, ctl) == ctl

(* ------------------------ _synthesize_results ------------------------- *)
\* mutant: the path penalty is forgotten
ScoreWithoutPenalty(c) == [num |-> PathPenaltyInverse * c.confidence, den |-> PathPenaltyInverse]

\* candidate.confidence / (1 + 0.2 * candidate.path_length), as a fraction
Score(c) ==
  [num |-> PathPenaltyInverse * c.confidence, den |-> PathPenaltyInverse + c.path_length]

ScoreLess(a, b) == a.num * b.den < b.num * a.den
ScoreEq(a, b) == a.num * b.den = b.num * a.den

WithScore(c) ==
  [material_id |-> c.material_id, formula |-> c.formula, recipe |-> c.recipe,
   confidence |-> c.confidence, distance |-> c.distance,
   path_length |-> c.path_length, score |-> Score(c)]

\* mutant: the sort is ascending (reverse=True forgotten)
ComesBeforeAscending(cands, j, k) ==
  \/ ScoreLess(cands[j].score, cands[k].score)
  \/ ScoreEq(cands[j].score, cands[k].score) /\ j < k

\* list.sort(key=score, reverse=True) puts element j before element k: its score
\* is higher, or the scores are equal and j came first (the sort is stable)
ComesBefore(cands, j, k) ==
  \/ ScoreLess(cands[k].score, cands[j].score)
  \/ ScoreEq(cands[j].score, cands[k].score) /\ j < k

\* the position of element j in the sorted list
Rank(cands, j) == 1 + Cardinality({k \in 1 .. Len(cands) : ComesBefore(cands, k, j)})

SortByScore(cands) ==
  [i \in 1 .. Len(cands) |-> cands[CHOOSE j \in 1 .. Len(cands) : Rank(cands, j) = i]]

\* the keys of recipes_by_material in insertion order
RECURSIVE GroupKeys(_, _)
GroupKeys(cands, seen) ==
  IF cands = << >> THEN << >>
  ELSE IF Head(cands).formula \in seen THEN GroupKeys(Tail(cands), seen)
  ELSE << Head(cands).formula >> \o GroupKeys(Tail(cands), seen \cup {Head(cands).formula})

Group(cands, formula) == SelectSeq(cands, LAMBDA c : c.formula = formula)

Recommendation(group) ==
  [source_material |-> group[1].formula, material_id |-> group[1].material_id,
   confidence |-> group[1].confidence, distance |-> group[1].distance,
   path_length |-> group[1].path_length, score |-> group[1].score,
   num_recipes |-> Len(group)]

\* mutant: every material gets a recommendation ([:5] forgotten)
RecommendationsUncut(sorted) ==
  LET keys == GroupKeys(sorted, {}) IN
  [i \in 1 .. Len(keys) |-> Recommendation(Group(sorted, keys[i]))]

\* lines 290-307: one recommendation for each of the first 5 keys
Recommendations(sorted) ==
  LET keys == GroupKeys(sorted, {}) IN
  [i \in 1 .. Min(Len(keys), TopMaterials) |-> Recommendation(Group(sorted, keys[i]))]

(* ------------------------ _generate_best_guess ------------------------ *)
\* mutant: the thresholds are inclusive
ApproachInclusive(confidence) ==
  IF confidence >= VeryHighAbove THEN "direct_adaptation"
  ELSE IF confidence >= HighAbove THEN "minor_modification"
  ELSE IF confidence >= ModerateAbove THEN "guided_exploration"
  ELSE "experimental_optimization"

Approach(confidence) ==
  IF confidence > VeryHighAbove THEN "direct_adaptation"
  ELSE IF confidence > HighAbove THEN "minor_modification"
  ELSE IF confidence > ModerateAbove THEN "guided_exploration"
  ELSE "experimental_optimization"

ConfidenceLevel(confidence) ==
  IF confidence > VeryHighAbove THEN "very_high"
  ELSE IF confidence > HighAbove THEN "high"
  ELSE IF confidence > ModerateAbove THEN "moderate"
  ELSE "exploratory"

GenerateBestGuess(recommendations) ==
  IF recommendations = << >> THEN [message |-> "No recommendations available"]
  ELSE [approach |-> Approach(recommendations[1].confidence),
        confidence_level |-> ConfidenceLevel(recommendations[1].confidence),
        primary_reference |-> recommendations[1].source_material,
        path_length |-> recommendations[1].path_length]

\* mutant: the emptiness test is inverted
NoRecipesFoundInverted(cands) == cands # << >>

NoRecipesFound(cands) == cands = << >>

SynthesizeResults(target_formula, cands, seen) ==
  IF NoRecipesFound(cands)
  THEN [status |-> "no_recipes_found", target |-> target_formula,
        message |-> "No synthesis recipes found in recursive search",
        visited_materials |-> Cardinality(seen), recommendations |-> << >>]
  ELSE LET sorted == SortByScore([i \in 1 .. Len(cands) |-> WithScore(cands[i])])
           recs == Recommendations(sorted) IN
       [status |-> "success", target |-> target_formula,
        visited_materials |-> Cardinality(seen),
        total_candidates |-> Len(sorted),
        unique_materials_with_recipes |-> Len(GroupKeys(sorted, {})),
        recommendations |-> recs,
        best_guess |-> GenerateBestGuess(recs)]

(* ------------------------------ actions ------------------------------- *)
InitOver(corpus) ==
  /\ tunables \in Tunables
  /\ formulas = [m \in corpus |-> m]
  /\ visited = {}
  /\ recipe_candidates = << >>
  /\ pc = "idle"
  /\ call = NoCall
  /\ stack = << >>
  /\ result = NoResult
  /\ last = NoLine
  /\ explore_count = [m \in corpus |-> 0]
  /\ direct_hits = {}
  /\ recipe_raised = FALSE
  /\ arg = NoValue
  /\ ret = NoValue
  /\ SingleThread

Init == InitOver(Materials)

\* mutant: the collection is not cleared
NotCleared(collection, empty) == collection

\* self.visited.clear(), self.recipe_candidates.clear()   (lines 115-116)
Cleared(collection, empty) == empty

\* search(target_formula, n_initial_neighbors) up to its call of _recursive_search
Search(target_formula, n_initial_neighbors) ==
  /\ pc \in {"idle", "done"}
  /\ visited' = Cleared(visited, {})
  /\ recipe_candidates' = Cleared(recipe_candidates, << >>)
  /\ call' = [kind |-> "call", node |-> Root(target_formula),
              n_neighbors |-> n_initial_neighbors, confidence_threshold |-> One]
  /\ stack' = << >>
  /\ pc' = "running"
  /\ result' = NoResult
  /\ last' = NoLine
  /\ explore_count' = [m \in DOMAIN formulas |-> 0]
  /\ direct_hits' = {}
  /\ recipe_raised' = FALSE
  /\ UNCHANGED fixed

Running == pc = "running" /\ call # NoCall

Control(ctl) ==
  /\ pc' = ctl.pc
  /\ stack' = ctl.stack
  /\ call' = ctl.call

Line(msg, node, revisit) ==
  [msg |-> msg, material_id |-> node.material_id, depth |-> node.depth, revisit |-> revisit]

Logged(msg, node) == last' = Line(msg, node, FALSE)

\* the line printed for a similarity lookup that raised names the exception
ErrorLine(node, revisit, error) ==
  [msg |-> "error_getting_neighbors", material_id |-> node.material_id,
   depth |-> node.depth, revisit |-> revisit, error |-> error]

\* mutant: the node is marked visited before the depth check
TerminateDepthAfterMarking ==
  /\ Running
  /\ DepthExceeded(call.node)
  /\ visited' = MarkVisited(call.node)
  /\ Control(Resume(stack))
  /\ Logged("max_depth_reached", call.node)
  /\ UNCHANGED << fixed, recipe_candidates, result, explore_count,
                  direct_hits, recipe_raised >>

\* lines 157-160
TerminateDepth ==
  /\ Running
  /\ DepthExceeded(call.node)
  /\ Control(Resume(stack))
  /\ Logged("max_depth_reached", call.node)
  /\ UNCHANGED << fixed, visited, recipe_candidates, result, explore_count,
                  direct_hits, recipe_raised >>

\* lines 162-165
TerminateConfidence ==
  /\ Running
  /\ ~DepthExceeded(call.node)
  /\ ConfidenceTooLow(call.node)
  /\ Control(Resume(stack))
  /\ Logged("confidence_too_low", call.node)
  /\ UNCHANGED << fixed, visited, recipe_candidates, result, explore_count,
                  direct_hits, recipe_raised >>

\* lines 167-170
TerminateVisited ==
  /\ Running
  /\ ~DepthExceeded(call.node)
  /\ ~ConfidenceTooLow(call.node)
  /\ AlreadyVisited(call.node)
  /\ Control(Resume(stack))
  /\ Logged("already_visited", call.node)
  /\ UNCHANGED << fixed, visited, recipe_candidates, result, explore_count,
                  direct_hits, recipe_raised >>

\* the children of confidence 0.99 (the direct-hit scenario) among the children kept
DirectHits(kept) ==
  {kept[i].material_id : i \in {j \in 1 .. Len(kept) : kept[j].confidence = 990}}

\* lines 172-224 for a recipe lookup of outcome r and a similarity lookup of outcome s:
\* everything but the progress lines and the note that a recipe lookup raised
ExploreEffect(r, s) ==
  /\ Running
  /\ ~DepthExceeded(call.node)
  /\ ~ConfidenceTooLow(call.node)
  /\ ~AlreadyVisited(call.node)
  /\ visited' = MarkVisited(call.node)
  /\ recipe_candidates' = CheckRecipes(call.node, r)
  /\ explore_count' =
       IF call.node.material_id = TargetId THEN explore_count
       ELSE [explore_count EXCEPT ![call.node.material_id] = @ + 1]
  /\ LET neighbors == [i \in 1 .. Len(s.list) |-> Neighbor(s.list[i])]
         ctl == IF s.raised THEN OnLookupError(stack)
                ELSE OnNeighbors(call, neighbors, visited', stack) IN
     /\ Control(AfterCheckRecipes(call.node, r, ctl))
     /\ direct_hits' =
          IF call.node.depth = 0 /\ ~s.raised
          THEN DirectHits(LimitNeighbors(
                 FilterNeighbors(neighbors, call.confidence_threshold, visited')))
          ELSE direct_hits
  /\ UNCHANGED << fixed, result >>

ExploreWith(r, s) ==
  /\ ExploreEffect(r, s)
  /\ recipe_raised' = (recipe_raised \/ (call.node.material_id # TargetId /\ r < 0))
  /\ last' = IF s.raised THEN ErrorLine(call.node, FALSE, s.error)
             ELSE Line("exploring", call.node,
                       \E i \in 1 .. Len(s.list) : s.list[i][1] \in visited)

Explore ==
  /\ Running
  /\ \E r \in RecipeOutcomes : \E s \in SimOutcomes(call.n_neighbors, DOMAIN formulas) : ExploreWith(r, s)

\* lines 137-140: the traversal is over, search aggregates and returns
Finish ==
  /\ pc = "running"
  /\ call = NoCall
  /\ LET res == SynthesizeResults(TargetFormula, recipe_candidates, visited) IN
     /\ result' = res
     /\ recipe_candidates' =
          IF NoRecipesFound(recipe_candidates) THEN recipe_candidates
          ELSE SortByScore([i \in 1 .. Len(recipe_candidates) |->
                              WithScore(recipe_candidates[i])])
  /\ pc' = "done"
  /\ UNCHANGED << fixed, visited, call, stack, last, explore_count,
                  direct_hits, recipe_raised >>

Next ==
  \/ \E n \in NInitialChoices : Search(TargetFormula, n)
  \/ TerminateDepth
  \/ TerminateConfidence
  \/ TerminateVisited
  \/ Explore
  \/ Finish

Spec == Init /\ [][Next]_vars

(* -------------------- aggregation on its own: SpecAgg ------------------ *)
(* _synthesize_results applied to the candidate lists a traversal can     *)
(* leave behind: more materials than TopMaterials, and materials that     *)
(* share a formula (polymorphs), which the three-material corpus of Spec  *)
(* cannot produce.  A traversal is abstracted to the sequence of its      *)
(* _check_recipes calls that found a recipe.                              *)
AggMaterials == 1 .. NumAggMaterials
\* confidence and depth of the node a recipe is found at
AggNodeKinds == {<< 990, 1 >>, << 850, 1 >>, << 990, 2 >>}

InitAgg ==
  /\ tunables = DefaultTunables
  /\ formulas = [m \in AggMaterials |-> m]
  /\ visited = {}
  /\ recipe_candidates = << >>
  /\ pc = "running"
  /\ call = NoCall
  /\ stack = << >>
  /\ result = NoResult
  /\ last = NoLine
  /\ explore_count = [m \in AggMaterials |-> 0]
  /\ direct_hits = {}
  /\ recipe_raised = FALSE
  /\ arg = NoValue
  /\ ret = NoValue
  /\ SingleThread

\* lines 172-181 for the next material of the corpus, met at a node of kind k;
\* its formula is its own or the one of material 1
Collect(k, formula) ==
  /\ pc = "running"
  /\ Cardinality(visited) < NumAggMaterials
  /\ LET m == Cardinality(visited) + 1
         node == [material_id |-> m, formula |-> formula, confidence |-> k[1],
                  distance |-> DistanceOf(k[1]), depth |-> k[2]] IN
     /\ formula \in {m, 1}
     /\ formulas' = [formulas EXCEPT ![m] = formula]
     /\ visited' = MarkVisited(node)
     /\ recipe_candidates' = CheckRecipes(node, 1)
     /\ explore_count' = [explore_count EXCEPT ![m] = @ + 1]
     /\ last' = Line("exploring", node, FALSE)
  /\ UNCHANGED << tunables, arg, ret, parked, shared, pc, call, stack, result, direct_hits,
                  recipe_raised >>

NextAgg ==
  \/ \E k \in AggNodeKinds : \E f \in AggMaterials : Collect(k, f)
  \/ Finish

SpecAgg == InitAgg /\ [][NextAgg]_vars

(* ------------------ _generate_best_guess on its own ------------------- *)
\* every confidence from 0 to 1 in steps of 1/1000
GuessInputs == 0 .. ConfidenceUnit

InitGuess ==
  /\ tunables = DefaultTunables
  /\ formulas = [m \in Materials |-> m]
  /\ visited = {}
  /\ recipe_candidates = << >>
  /\ pc = "idle"
  /\ call = NoCall
  /\ stack = << >>
  /\ result = NoResult
  /\ last = NoLine
  /\ explore_count = [m \in Materials |-> 0]
  /\ direct_hits = {}
  /\ recipe_raised = FALSE
  /\ arg \in {[kind |-> "recommendations",
               list |-> << [source_material |-> 1, material_id |-> 1, confidence |-> c,
                            distance |-> 0, path_length |-> 1,
                            score |-> [num |-> PathPenaltyInverse * c,
                                       den |-> PathPenaltyInverse + 1],
                            num_recipes |-> 1] >>] : c \in GuessInputs}
  /\ ret = NoValue
  /\ SingleThread

BestGuess ==
  /\ arg # NoValue
  /\ ret = NoValue
  /\ ret' = GenerateBestGuess(arg.list)
  /\ UNCHANGED << tunables, formulas, visited, recipe_candidates, pc, call, stack, result,
                  last, explore_count, direct_hits, recipe_raised, arg, parked, shared >>

NextGuess == BestGuess

SpecGuess == InitGuess /\ [][NextGuess]_vars

(* --------------- the scoring loop on its own: SpecScore ---------------- *)
\* an engine that is not searching, and the argument of the function applied
InitApply(args) ==
  /\ tunables = DefaultTunables
  /\ formulas = [m \in Materials |-> m]
  /\ visited = {}
  /\ recipe_candidates = << >>
  /\ pc = "idle"
  /\ call = NoCall
  /\ stack = << >>
  /\ result = NoResult
  /\ last = NoLine
  /\ explore_count = [m \in Materials |-> 0]
  /\ direct_hits = {}
  /\ recipe_raised = FALSE
  /\ arg \in args
  /\ ret = NoValue
  /\ SingleThread

\* the function-level actions change ret only
Returns(value) ==
  /\ ret = NoValue
  /\ ret' = value
  /\ UNCHANGED << tunables, formulas, visited, recipe_candidates, pc, call, stack, result,
                  last, explore_count, direct_hits, recipe_raised, arg, parked, shared >>

\* confidences lie in (0, 1]
ScoreConfidences == {(k * ConfidenceUnit) \div NumScoreLevels : k \in 1 .. NumScoreLevels}

\* candidates as _check_recipes builds them, at every depth a node can have
ScoreCandidates ==
  {Candidate([material_id |-> 1, formula |-> 1, confidence |-> c,
              distance |-> 0, depth |-> d], 1) :
     c \in ScoreConfidences, d \in 0 .. DefaultMaxDepth}

InitScore ==
  InitApply({[kind |-> "candidates", list |-> << a, b >>] :
               a \in ScoreCandidates, b \in ScoreCandidates})

\* lines 277-280: every candidate gets its score
ScoreAll ==
  /\ arg.kind = "candidates"
  /\ Returns([i \in 1 .. Len(arg.list) |-> WithScore(arg.list[i])])

NextScore == ScoreAll

SpecScore == InitScore /\ [][NextScore]_vars

(* ---------------- _calculate_adaptation on its own: SpecAdapt ---------- *)
Elements == {"Fe", "Li", "O"}

\* Composition(formula): the amount of every element of a formula, which has at
\* least one element
Compositions ==
  UNION {[els -> 1 .. MaxAmount] : els \in (SUBSET Elements) \ {{}}}

RECURSIVE Total(_, _)
Total(comp, els) ==
  IF els = {} THEN 0
  ELSE LET el == CHOOSE x \in els : TRUE IN comp[el] + Total(comp, els \ {el})

\* comp.get_atomic_fraction(el)
AtomicFraction(comp, el) == Fraction(comp[el], Total(comp, DOMAIN comp))

\* mutant: the ratio of the fractions instead of their relative difference
ChangePercentAsRatio(t, s) == Fraction(100 * t.num * s.den, t.den * s.num)

\* (target_ratio - source_ratio) / source_ratio * 100; source_ratio > 0 here
ChangePercent(t, s) ==
  Fraction(100 * (t.num * s.den - s.num * t.den), t.den * s.num)

\* len(common_elements) / max(len(target_elements), len(source_elements))
SimilarityScore(target_elements, source_elements) ==
  Fraction(Cardinality(target_elements \cap source_elements),
           Max(Cardinality(target_elements), Cardinality(source_elements)))

CalculateAdaptation(target_comp, source_comp) ==
  LET target_elements == DOMAIN target_comp
      source_elements == DOMAIN source_comp
      common_elements == target_elements \cap source_elements IN
  [added_elements |-> target_elements \ source_elements,
   removed_elements |-> source_elements \ target_elements,
   common_elements |-> common_elements,
   stoichiometry_changes |->
     [el \in common_elements |->
        [target |-> AtomicFraction(target_comp, el),
         source |-> AtomicFraction(source_comp, el),
         change_percent |-> ChangePercent(AtomicFraction(target_comp, el),
                                          AtomicFraction(source_comp, el))]],
   similarity_score |-> SimilarityScore(target_elements, source_elements)]

InitAdapt ==
  InitApply({[kind |-> "adaptation", target |-> t, source |-> s] :
               t \in Compositions, s \in Compositions})

Adapt ==
  /\ arg.kind = "adaptation"
  /\ Returns(CalculateAdaptation(arg.target, arg.source))

NextAdapt == Adapt

SpecAdapt == InitAdapt /\ [][NextAdapt]_vars

(* ------------- SearchAPI.query and its caller: SpecQuery -------------- *)
InputTypes == {"composition", "structure"}

\* the scaled feature of corpus entry m and of the queried material, on a line
CorpusFeature(m) == m * m
QueryFeatures == 0 .. NumMaterials * NumMaterials

\* the Euclidean distance of two features
Distance(a, b) == IF a < b THEN b - a ELSE a - b

NoNeighbors(error, featurized) ==
  [raised |-> error, featurized |-> featurized, neighbors |-> << >>]

\* mutant: the kind of the input is not checked
GetEmbeddingUnchecked(input_type, input_data) ==
  [raised |-> "none", featurized |-> TRUE, embedding |-> input_data.feature]

\* MaterialsEmbedding.get_embedding
GetEmbedding(input_type, input_data) ==
  IF input_type \in InputTypes
  THEN IF input_data.kind # input_type
       THEN [raised |-> "ValueError", featurized |-> FALSE, embedding |-> NoValue]
       ELSE [raised |-> "none", featurized |-> TRUE, embedding |-> input_data.feature]
  ELSE [raised |-> "ValueError", featurized |-> FALSE, embedding |-> NoValue]

\* corpus entry a is nearer to the feature than b (ties by index)
Nearer(feature, a, b) ==
  \/ Distance(feature, CorpusFeature(a)) < Distance(feature, CorpusFeature(b))
  \/ Distance(feature, CorpusFeature(a)) = Distance(feature, CorpusFeature(b)) /\ a < b

\* nn_model.kneighbors: the k nearest corpus entries, nearest first
KNeighbors(feature, k) ==
  [i \in 1 .. k |->
     CHOOSE m \in Materials :
       Cardinality({other \in Materials : Nearer(feature, other, m)}) = i - 1]

\* SearchAPI.query(input_data) of an index built with n_neighbors: more neighbors
\* than corpus entries is an error of kneighbors, and for n_neighbors = 1 squeeze()
\* leaves 0-d arrays that zip cannot iterate
Query(api, input_data) ==
  LET e == GetEmbedding(api.input_type, input_data) IN
  IF e.raised # "none" THEN NoNeighbors(e.raised, FALSE)
  ELSE IF api.n_neighbors > NumMaterials THEN NoNeighbors("ValueError", TRUE)
  ELSE IF api.n_neighbors = 1 THEN NoNeighbors("TypeError", TRUE)
  ELSE LET indices == KNeighbors(e.embedding, api.n_neighbors) IN
       [raised |-> "none", featurized |-> TRUE,
        neighbors |-> [i \in 1 .. Len(indices) |->
                         [material_id |-> indices[i], formula |-> formulas[indices[i]],
                          distance |-> Distance(e.embedding, CorpusFeature(indices[i]))]]]

\* the parameters of query besides self
QueryParameters == {"input_data"}

\* a call of query that passes the keyword arguments named: a keyword that is
\* no parameter is a TypeError before the body runs
QueryCall(api, input_data, keywords) ==
  IF keywords \subseteq QueryParameters THEN Query(api, input_data)
  ELSE NoNeighbors("TypeError", FALSE)

\* SynthesisAgent.find_similar_materials_by_composition(composition_str, n_neighbors)
FindSimilarMaterialsByComposition(api, composition, n_neighbors) ==
  QueryCall(api, composition, {"n_neighbors"})

InitQuery ==
  InitApply(
    {[kind |-> "query", api |-> [input_type |-> t, n_neighbors |-> n],
      input_data |-> [kind |-> k, feature |-> f]] :
        t \in InputTypes, n \in 1 .. NumMaterials + 1, k \in InputTypes, f \in QueryFeatures}
    \cup
    {[kind |-> "find_similar", api |-> [input_type |-> "composition", n_neighbors |-> n],
      input_data |-> [kind |-> "composition", feature |-> f], n_neighbors |-> c] :
        n \in 1 .. NumMaterials + 1, f \in QueryFeatures, c \in 1 .. NumMaterials})

QueryDirect ==
  /\ arg.kind = "query"
  /\ Returns(Query(arg.api, arg.input_data))

FindSimilar ==
  /\ arg.kind = "find_similar"
  /\ Returns(FindSimilarMaterialsByComposition(arg.api, arg.input_data, arg.n_neighbors))

NextQuery == QueryDirect \/ FindSimilar

SpecQuery == InitQuery /\ [][NextQuery]_vars

(* ------- low confidences and shallow engines: SpecWide ---------------- *)
\* confidences around the bars 0.85, 0.7225 and 0.614125 of the default decay
\* and around the default min_confidence of 0.7
WideConfLevels == {850, 730, 710, 650}

\* the engines of Spec, and engines of max_depth 1 and 0
WideTunables ==
  Tunables \cup
  {[max_depth |-> d, min_confidence |-> DefaultMinConfidence,
    confidence_decay |-> DefaultConfidenceDecay,
    max_neighbors_per_level |-> DefaultMaxNeighborsPerLevel] : d \in {0, 1}}

InitWide ==
  /\ tunables \in WideTunables
  /\ formulas = [m \in Materials |-> m]
  /\ visited = {}
  /\ recipe_candidates = << >>
  /\ pc = "idle"
  /\ call = NoCall
  /\ stack = << >>
  /\ result = NoResult
  /\ last = NoLine
  /\ explore_count = [m \in Materials |-> 0]
  /\ direct_hits = {}
  /\ recipe_raised = FALSE
  /\ arg = NoValue
  /\ ret = NoValue
  /\ SingleThread

ExploreWide ==
  /\ Running
  /\ \E r \in RecipeOutcomes :
       \E s \in SimOutcomesOf(NeighborListsOf(WideConfLevels), call.n_neighbors,
                              DOMAIN formulas) : ExploreWith(r, s)

NextWide ==
  \/ Search(TargetFormula, DefaultNInitialNeighbors)
  \/ TerminateDepth
  \/ TerminateConfidence
  \/ TerminateVisited
  \/ ExploreWide
  \/ Finish

SpecWide == InitWide /\ [][NextWide]_vars

(* ------------------------- the smaller corpus ------------------------- *)
\* the corpus of the fair specification: two entries already give siblings, a
\* material reached through two paths, and the cycle 1 -> 2 -> 1
FairMaterials == 1 .. NumFairMaterials

(* ------------- an engine that has searched before: SpecReuse ----------- *)
\* the first-level node of material m, a direct hit
HitNode(m) ==
  ChildNode(Root(TargetFormula),
            [material_id |-> m, formula |-> m, confidence |-> 990, distance |-> DistanceOf(990)])

\* what an earlier search left in self.recipe_candidates: the three recipes kept
\* for material 1, scored and sorted
Leftover ==
  SortByScore([i \in 1 .. RecipesPerMaterial |-> WithScore(Candidate(HitNode(1), i))])

\* the engine right after a search that explored material 1 as a first-level
\* node, found recipes for it, and whose similarity lookup for it raised
InitReuse ==
  /\ tunables \in Tunables
  /\ formulas = [m \in FairMaterials |-> m]
  /\ visited = {1}
  /\ recipe_candidates = Leftover
  /\ pc = "done"
  /\ call = NoCall
  /\ stack = << >>
  /\ result = SynthesizeResults(TargetFormula, Leftover, {1})
  /\ last = ErrorLine(HitNode(1), FALSE, "LookupFailed")
  /\ explore_count = [m \in FairMaterials |-> IF m = 1 THEN 1 ELSE 0]
  /\ direct_hits = {1}
  /\ recipe_raised = FALSE
  /\ arg = NoValue
  /\ ret = NoValue
  /\ SingleThread

SpecReuse == InitReuse /\ [][Next]_vars

(* ------------- two threads calling search: SpecConc ------------------- *)
(* The variables pc, call, stack and result are those of the thread that  *)
(* runs; parked holds the other thread's, and Switch hands the processor  *)
(* over between two _recursive_search invocations.  The lookups are       *)
(* deterministic: the corpus is 1 and 2, both neighbors of the target and *)
(* of each other at confidence 0.85, each with more recipes than are kept. *)
IdleContext ==
  [pc |-> "idle", call |-> NoCall, stack |-> << >>, result |-> NoResult,
   visited |-> {}, recipe_candidates |-> << >>]

\* mutant: visited and recipe_candidates are class attributes, one for all engines
OneEngineForAll(own, others) == own

\* self.visited, self.recipe_candidates of the engine the thread switched to
\* works on: attributes of the instance, set in __init__
EngineState(own, others) == IF shared THEN own ELSE others

ConcNeighbors(node) ==
  [raised |-> FALSE, error |-> "none",
   list |-> IF node.material_id = TargetId THEN << << 1, 850 >>, << 2, 850 >> >>
            ELSE IF node.material_id = 1 THEN << << 2, 850 >> >>
            ELSE << << 1, 850 >> >>]

InitConc ==
  /\ tunables \in Tunables
  /\ formulas = [m \in FairMaterials |-> m]
  /\ visited = {}
  /\ recipe_candidates = << >>
  /\ pc = "idle"
  /\ call = NoCall
  /\ stack = << >>
  /\ result = NoResult
  /\ last = NoLine
  /\ explore_count = [m \in FairMaterials |-> 0]
  /\ direct_hits = {}
  /\ recipe_raised = FALSE
  /\ arg = NoValue
  /\ ret = NoValue
  /\ parked = IdleContext
  /\ shared \in BOOLEAN

\* lines 172-224 with the deterministic lookups
ExploreFixed ==
  /\ Running
  /\ ExploreWith(MaxRecipes, ConcNeighbors(call.node))

\* the other thread runs on
Switch ==
  /\ parked' = [pc |-> pc, call |-> call, stack |-> stack, result |-> result,
                visited |-> EngineState(parked.visited, visited),
                recipe_candidates |-> EngineState(parked.recipe_candidates, recipe_candidates)]
  /\ pc' = parked.pc
  /\ call' = parked.call
  /\ stack' = parked.stack
  /\ result' = parked.result
  /\ visited' = EngineState(visited, parked.visited)
  /\ recipe_candidates' = EngineState(recipe_candidates, parked.recipe_candidates)
  /\ UNCHANGED << tunables, formulas, arg, ret, shared, last, explore_count, direct_hits,
                  recipe_raised >>

NextConc ==
  \/ Search(TargetFormula, DefaultNInitialNeighbors)
  \/ TerminateDepth
  \/ TerminateConfidence
  \/ TerminateVisited
  \/ ExploreFixed
  \/ Finish
  \/ Switch

SpecConc == InitConc /\ [][NextConc]_vars

(* ------------------------------ fairness ------------------------------ *)
\* search is synchronous and single-threaded: once called it keeps running
Step == TerminateDepth \/ TerminateConfidence \/ TerminateVisited \/ Explore \/ Finish

InitFair == InitOver(FairMaterials)

FairSpec == InitFair /\ [][Next]_vars /\ WF_vars(Step)

\* the same engine and corpus without the fairness condition
SpecSmall == InitFair /\ [][Next]_vars

(* ============================== claims ================================ *)

\* C1: within one search no material other than the synthetic root is explored
\* (marked visited, recipe-checked, neighbor-queried) more than once, also when it
\* is reachable through several paths or through a cycle.
C1_NoRevisit == \A m \in DOMAIN explore_count : explore_count[m] <= 1

\* a material explored in a sibling's subtree is met again as a later child
C1_Witness == last.msg = "already_visited" /\ explore_count[last.material_id] = 1

\* C2: every node created has depth <= max_depth, and no node of depth max_depth
\* issues a similarity lookup or gets children.
C2_DepthBound ==
  /\ call # NoCall => call.node.depth <= tunables.max_depth
  /\ \A i \in 1 .. Len(stack) : stack[i].node.depth < tunables.max_depth
  /\ last.msg \in {"exploring", "error_getting_neighbors"} => last.depth < tunables.max_depth

\* a node of depth max_depth was created and stopped by the depth check
C2_Witness ==
  /\ tunables = DefaultTunables
  /\ last.msg = "max_depth_reached"
  /\ last.depth = tunables.max_depth

RaisedOutcome(error) == [raised |-> TRUE, error |-> error, list |-> << >>]
EmptyOutcome == [raised |-> FALSE, error |-> "none", list |-> << >>]

\* C3: a similarity lookup that raises leaves the search in the state a lookup
\* returning no neighbor leaves it in (so siblings and ancestors go on alike), no
\* exception escapes, and search returns success or no_recipes_found.
C3_LookupFailureIsolated ==
  /\ [](pc # "raised")
  /\ [](pc = "done" => result.status \in {"success", "no_recipes_found"})
  /\ [][\A r \in RecipeOutcomes : \A error \in LookupErrors :
          ExploreWith(r, RaisedOutcome(error)) => ExploreEffect(r, EmptyOutcome)]_vars

\* the lookup of a first-level node raised and its sibling is explored next
C3_Witness ==
  /\ last.msg = "error_getting_neighbors"
  /\ last.depth = 1
  /\ call # NoCall
  /\ call.node.depth = 1

\* C4: every search call terminates and returns a result, whatever the graph
\* (cyclic ones included) and whatever the outcomes of the two lookups.
C4_Terminates == (pc = "running") ~> (pc = "done")

\* a search returned whose last explored node, two hops out, led back to a
\* material visited before it
C4_Witness == pc = "done" /\ last.msg = "exploring" /\ last.revisit /\ last.depth = 2

\* C5: status is success iff a candidate was collected, no_recipes_found
\* otherwise, and visited_materials counts the distinct materials explored.
C5_StatusIffCandidates ==
  pc = "done" =>
    /\ (result.status = "success") <=> (recipe_candidates # << >>)
    /\ (result.status = "no_recipes_found") <=> (recipe_candidates = << >>)
    /\ result.visited_materials =
         Cardinality({m \in DOMAIN explore_count : explore_count[m] > 0})

C5_Witness ==
  pc = "done" /\ result.status = "success" /\ result.visited_materials = NumMaterials

C7_DirectHit ==
  (/\ pc = "done"
   /\ tunables = DefaultTunables
   /\ \E i \in 1 .. Len(recipe_candidates) :
        recipe_candidates[i].material_id \in direct_hits) =>
    /\ result.status = "success"
    /\ result.best_guess.approach = "direct_adaptation"

\* the thresholds of the suspended invocations, outermost first, then the one of
\* the invocation about to run
ThresholdChain ==
  [i \in 1 .. Len(stack) |-> stack[i].confidence_threshold]
    \o (IF call # NoCall THEN << call.confidence_threshold >> ELSE << >>)

\* C8: the root's threshold is 1.0, a child's threshold is its parent's times
\* confidence_decay, and thresholds strictly decrease along every path.
C8_ThresholdDecay ==
  LET chain == ThresholdChain IN
  /\ chain # << >> => chain[1].num = chain[1].den
  /\ \A i \in 2 .. Len(chain) :
       /\ chain[i].num * chain[i - 1].den * DecayUnit
            = chain[i - 1].num * tunables.confidence_decay * chain[i].den
       /\ chain[i].num * chain[i - 1].den < chain[i - 1].num * chain[i].den
  /\ \A i \in 1 .. Len(stack) : stack[i].node.depth = i - 1
  /\ call # NoCall => call.node.depth = Len(stack)

\* a call at depth 3: thresholds 1, 0.85, 0.7225 and 0.614125
C8_Witness == call # NoCall /\ Len(stack) = 3

\* the candidates of one source formula
OfFormula(f) ==
  {i \in 1 .. Len(recipe_candidates) : recipe_candidates[i].formula = f}

CandidateFormulas == {recipe_candidates[i].formula : i \in 1 .. Len(recipe_candidates)}

\* C9: on success there is one recommendation per source formula for the (at
\* most) 5 formulas of highest best score, each carries the data of a
\* highest-scoring candidate of its formula, and the recommendations are in
\* non-increasing score order, so the first has the maximum score of all.
C9_TopRecommendations ==
  (pc = "done" /\ result.status = "success") =>
    LET recs == result.recommendations
        cands == recipe_candidates
        chosen == {recs[i].source_material : i \in 1 .. Len(recs)} IN
    /\ Len(recs) = Min(TopMaterials, Cardinality(CandidateFormulas))
    /\ \A i, j \in 1 .. Len(recs) : i < j => recs[i].source_material # recs[j].source_material
    /\ chosen \subseteq CandidateFormulas
    /\ \A i \in 1 .. Len(recs) :
         /\ \E k \in OfFormula(recs[i].source_material) :
              /\ cands[k].material_id = recs[i].material_id
              /\ cands[k].confidence = recs[i].confidence
              /\ cands[k].distance = recs[i].distance
              /\ cands[k].path_length = recs[i].path_length
              /\ ScoreEq(cands[k].score, recs[i].score)
         /\ \A k \in OfFormula(recs[i].source_material) :
              ~ScoreLess(recs[i].score, cands[k].score)
         /\ \A k \in 1 .. Len(cands) :
              cands[k].formula \notin chosen => ~ScoreLess(recs[i].score, cands[k].score)
    /\ \A i \in 1 .. Len(recs) - 1 : ~ScoreLess(recs[i].score, recs[i + 1].score)
    /\ \A k \in 1 .. Len(cands) : ~ScoreLess(recs[1].score, cands[k].score)
    /\ result.best_guess.primary_reference = recs[1].source_material

\* six formulas have candidates, five are recommended, and one recommended
\* formula has two materials of which the later one scores higher
C9_Witness ==
  /\ pc = "done"
  /\ result.status = "success"
  /\ result.unique_materials_with_recipes = TopMaterials + 1
  /\ Len(result.recommendations) = TopMaterials
  /\ \E i \in 1 .. Len(result.recommendations) :
       /\ result.recommendations[i].num_recipes = 2
       /\ result.recommendations[i].material_id > 1

\* C10: best_guess classifies the confidence c of the top recommendation:
\* c > 0.95 direct_adaptation/very_high, 0.85 < c <= 0.95 minor_modification/high,
\* 0.75 < c <= 0.85 guided_exploration/moderate, c <= 0.75
\* experimental_optimization/exploratory.
C10_Classification ==
  ret # NoValue =>
    LET c == arg.list[1].confidence
        class == << ret.approach, ret.confidence_level >> IN
    /\ c > 950 => class = << "direct_adaptation", "very_high" >>
    /\ (850 < c /\ c <= 950) => class = << "minor_modification", "high" >>
    /\ (750 < c /\ c <= 850) => class = << "guided_exploration", "moderate" >>
    /\ c <= 750 => class = << "experimental_optimization", "exploratory" >>

\* a confidence of exactly 0.95 is classified minor_modification
C10_Witness ==
  /\ ret # NoValue
  /\ arg.list[1].confidence = 950
  /\ ret.approach = "minor_modification"

\* C11: every candidate's score is confidence / (1 + 0.2 * path_length), e.g.
\* 0.9 / 1.4 for confidence 0.9 and path_length 2; for equal confidence
\* a longer path scores strictly lower, for equal path_length a higher
\* confidence scores strictly higher.
C11_ScoreFormula ==
  (ret # NoValue /\ arg.kind = "candidates") =>
    /\ \A i \in 1 .. Len(ret) :
         ret[i].score.num * (10 + 2 * ret[i].path_length)
           = 10 * ret[i].confidence * ret[i].score.den
    /\ \A i \in 1 .. Len(ret) :
         (ret[i].confidence = 900 /\ ret[i].path_length = 2) =>
           ret[i].score.num * 14 = 9000 * ret[i].score.den
    /\ \A i, j \in 1 .. Len(ret) :
         /\ (ret[i].confidence = ret[j].confidence
              /\ ret[i].path_length < ret[j].path_length)
            => ScoreLess(ret[j].score, ret[i].score)
         /\ (ret[i].path_length = ret[j].path_length
              /\ ret[i].confidence < ret[j].confidence)
            => ScoreLess(ret[i].score, ret[j].score)

\* confidence 0.9 at path_length 2 was scored next to confidence 0.9 at path_length 3
C11_Witness ==
  /\ ret # NoValue
  /\ arg.kind = "candidates"
  /\ ret[1].confidence = 900 /\ ret[1].path_length = 2
  /\ ret[2].confidence = 900 /\ ret[2].path_length = 3

\* C12: an InvalidInputKind or IndexUnavailable error of a similarity lookup made
\* while search is running is raised to the caller of search: it is not swallowed
\* and reported as a pruned branch or a no_recipes_found result.
C12_FatalErrorsRaised ==
  (last.msg = "error_getting_neighbors"
     /\ last.error \in {"InvalidInputKind", "IndexUnavailable"})
  => pc = "raised"

\* the line is about a material other than the synthetic root
AboutMaterial == last.msg # "none" /\ last.material_id # TargetId

CandidatesOf(m) == {i \in 1 .. Len(recipe_candidates) : recipe_candidates[i].material_id = m}

ExploredNow == {m \in DOMAIN explore_count : explore_count[m] = 1}

\* C14: every search starts from an empty visited set and an empty candidate
\* list, and what it returns counts only the materials and candidates of its own
\* traversal: nothing of an earlier search on the same engine is left in it.
C14_FreshStart ==
  /\ (call # NoCall /\ call.node.depth = 0) =>
       (visited = {} /\ recipe_candidates = << >> /\ stack = << >>)
  /\ pc \in {"running", "done"} =>
       /\ visited = ExploredNow
       /\ \A i \in 1 .. Len(recipe_candidates) :
            recipe_candidates[i].material_id \in ExploredNow
  /\ pc = "done" =>
       /\ result.visited_materials = Cardinality(ExploredNow)
       /\ result.status = "success" =>
            /\ result.total_candidates = Len(recipe_candidates)
            /\ \A i \in 1 .. Len(result.recommendations) :
                 result.recommendations[i].material_id \in ExploredNow

\* a search on an engine that holds three candidates of an earlier search returned
\* no_recipes_found after exploring one material
C14_Witness ==
  /\ pc = "done"
  /\ result.status = "no_recipes_found"
  /\ result.visited_materials = 1

\* the adaptation of a formula to itself has been computed
AdaptedToItself == ret # NoValue /\ arg.kind = "adaptation" /\ arg.target = arg.source

\* C15 as stated: the adaptation strategy between X and X has no added and no
\* removed element, similarity_score 1.0, and empty stoichiometry_changes.
C15_Original ==
  AdaptedToItself =>
    /\ ret.added_elements = {}
    /\ ret.removed_elements = {}
    /\ ret.similarity_score = One
    /\ DOMAIN ret.stoichiometry_changes = {}

\* C15 amended: the adaptation strategy between X and X has no added and no
\* removed element, similarity_score 1.0, and one stoichiometry_changes entry
\* per element of X, each with target = source and change_percent 0.
C15_SelfAdaptation ==
  AdaptedToItself =>
    /\ ret.added_elements = {}
    /\ ret.removed_elements = {}
    /\ ret.similarity_score = One
    /\ DOMAIN ret.stoichiometry_changes = DOMAIN arg.target
    /\ \A el \in DOMAIN ret.stoichiometry_changes :
         /\ ret.stoichiometry_changes[el].target = ret.stoichiometry_changes[el].source
         /\ ret.stoichiometry_changes[el].change_percent.num = 0

\* a formula of three elements in unequal amounts was adapted to itself
C15_Witness ==
  /\ AdaptedToItself
  /\ DOMAIN arg.target = Elements
  /\ arg.target["Fe"] # arg.target["O"]

\* C16: similarity_score = |common elements| / |union of the target's and the
\* source's elements|, and added, removed and common elements are the set
\* differences and the intersection of the two element sets.
C16_Jaccard ==
  (ret # NoValue /\ arg.kind = "adaptation") =>
    LET t == DOMAIN arg.target
        s == DOMAIN arg.source IN
    /\ ret.similarity_score.num * Cardinality(t \cup s)
         = Cardinality(t \cap s) * ret.similarity_score.den
    /\ ret.added_elements = t \ s
    /\ ret.removed_elements = s \ t
    /\ ret.common_elements = t \cap s

\* C17: a query whose material is of another kind than the index was built for
\* fails with the invalid-input error, computes no feature vector and returns no
\* neighbor; when the kinds match the embedding is produced.
C17_KindChecked ==
  (ret # NoValue /\ arg.kind = "query") =>
    /\ arg.input_data.kind # arg.api.input_type =>
         (ret.raised = "ValueError" /\ ~ret.featurized /\ ret.neighbors = << >>)
    /\ arg.input_data.kind = arg.api.input_type => ret.featurized

\* a composition was passed to an index built for structures
C17_Witness ==
  /\ ret # NoValue
  /\ arg.kind = "query"
  /\ arg.api.input_type = "structure"
  /\ arg.input_data.kind = "composition"
  /\ ret.raised = "ValueError"

\* C18: called the way the similarity lookup of the search calls it, with a
\* per-call n_neighbors that is at most the corpus size, query returns exactly
\* the n_neighbors nearest corpus entries in non-decreasing distance order.
C18_NearestReturned ==
  (ret # NoValue /\ arg.kind = "find_similar" /\ arg.n_neighbors <= NumMaterials) =>
    /\ ret.raised = "none"
    /\ Len(ret.neighbors) = arg.n_neighbors
    /\ \A i \in 1 .. Len(ret.neighbors) - 1 :
         ret.neighbors[i].distance <= ret.neighbors[i + 1].distance
    /\ \A m \in Materials :
         (\A i \in 1 .. Len(ret.neighbors) : ret.neighbors[i].material_id # m) =>
           \A i \in 1 .. Len(ret.neighbors) :
             ret.neighbors[i].distance <= Distance(arg.input_data.feature, CorpusFeature(m))

\* C19: every neighbor a similarity query returns carries a confidence in (0, 1],
\* and of two neighbors of one query the nearer has the strictly higher confidence.
C19_ConfidenceCarried ==
  (ret # NoValue /\ arg.kind = "query" /\ ret.raised = "none") =>
    /\ \A i \in 1 .. Len(ret.neighbors) :
         /\ "confidence" \in DOMAIN ret.neighbors[i]
         /\ ret.neighbors[i].confidence > 0
         /\ ret.neighbors[i].confidence <= ConfidenceUnit
    /\ \A i, j \in 1 .. Len(ret.neighbors) :
         ret.neighbors[i].distance < ret.neighbors[j].distance =>
           ret.neighbors[i].confidence > ret.neighbors[j].confidence

\* the node of material m below the node parent, over the deterministic lookups
NodeBelow(parent, m) ==
  ChildNode(parent,
            [material_id |-> m, formula |-> m, confidence |-> 850, distance |-> DistanceOf(850)])

\* what search returns over the deterministic lookups when it runs alone: with the
\* default tunables it explores 1 and below it 2; with min_confidence 0.9 the
\* confidence check stops the first node, and nothing is explored
AloneResult ==
  IF tunables = DefaultTunables
  THEN SynthesizeResults(TargetFormula,
         [i \in 1 .. 2 * RecipesPerMaterial |->
            IF i <= RecipesPerMaterial
            THEN Candidate(NodeBelow(Root(TargetFormula), 1), i)
            ELSE Candidate(NodeBelow(NodeBelow(Root(TargetFormula), 1), 2),
                           i - RecipesPerMaterial)],
         {1, 2})
  ELSE SynthesizeResults(TargetFormula, << >>, {})

\* C20: visited and recipe_candidates belong to the engine instance and are not
\* locked: two search calls that interleave on one instance can make a call return
\* something else than it returns alone (the witness), while calls on two
\* instances always return what they return alone.
C20_SeparateEnginesIndependent ==
  ~shared =>
    /\ pc = "done" => result = AloneResult
    /\ parked.pc = "done" => parked.result = AloneResult

\* on a shared engine a call returned no_recipes_found although alone it finds
\* recipes: the other call's reset emptied the candidate list
C20_Witness ==
  /\ shared
  /\ tunables = DefaultTunables
  /\ pc = "done"
  /\ result.status = "no_recipes_found"
  /\ parked.pc = "running"

\* C21: a recipe lookup that raises at a node is treated like one that returns
\* an empty list: no exception escapes, the node yields no candidate, it stays
\* marked visited, and the traversal goes on to query and explore its neighbors,
\* every step leaving the engine as the step with the empty list leaves it, so
\* the search result is the one of the run with the empty list.
C21_RecipeFailureIsEmpty ==
  /\ [](pc # "raised")
  /\ [][Running => \A s \in SimOutcomes(call.n_neighbors, DOMAIN formulas) :
          ExploreWith(-1, s) =>
            /\ ExploreEffect(0, s)
            /\ recipe_candidates' = recipe_candidates
            /\ visited' = visited \cup ({call.node.material_id} \ {TargetId})
            /\ (~s.raised /\ \E i \in 1 .. Len(s.list) :
                   Admissible(Neighbor(s.list[i]), call.confidence_threshold, visited'))
               => (call' # NoCall /\ call'.node.depth = call.node.depth + 1)]_vars
  /\ []((pc = "done" /\ recipe_raised /\ result.status = "no_recipes_found") =>
          result = SynthesizeResults(TargetFormula, << >>, ExploredNow))

\* the recipe lookup of a first-level node raised, its neighbor was explored
\* below it, and the search returned without a candidate
C21_Witness ==
  /\ pc = "done"
  /\ recipe_raised
  /\ result.status = "no_recipes_found"
  /\ result.visited_materials = NumFairMaterials
  /\ last.depth = 2

\* C22: candidates are only produced for non-root nodes: every collected
\* candidate has a material_id other than the synthetic root id and
\* path_length >= 1, and no recipe lookup is made for the root node (exploring
\* it neither adds a candidate nor can fail on a recipe lookup).
C22_NoRootCandidates ==
  /\ [](\A i \in 1 .. Len(recipe_candidates) :
          /\ recipe_candidates[i].material_id # TargetId
          /\ recipe_candidates[i].path_length >= 1)
  /\ [][(Running /\ call.node.material_id = TargetId) =>
          (recipe_candidates' = recipe_candidates /\ recipe_raised' = recipe_raised)]_vars

\* the root has been explored, nothing was collected for it, and candidates were
\* collected for the first-level node below it
C22_Witness ==
  /\ Len(stack) = 2
  /\ stack[1].node.material_id = TargetId
  /\ recipe_candidates # << >>
  /\ \A i \in 1 .. Len(recipe_candidates) :
       recipe_candidates[i].material_id = stack[2].node.material_id

\* the recipes (by their position in the lookup's list) kept for material m
RecipesOf(m) == {recipe_candidates[i].recipe : i \in CandidatesOf(m)}

\* C23: each explored material contributes at most 3 candidates however many
\* recipes its lookup returns, namely the first 3 in lookup order; so there are
\* at most 3 candidates per material_id, and total_candidates is at most
\* 3 * visited_materials.
C23_ThreePerMaterial ==
  /\ \A m \in DOMAIN formulas :
       /\ Cardinality(CandidatesOf(m)) <= 3
       /\ RecipesOf(m) = 1 .. Cardinality(CandidatesOf(m))
       /\ m \notin visited => CandidatesOf(m) = {}
  /\ Len(recipe_candidates) <= 3 * Cardinality(visited)
  /\ (pc = "done" /\ result.status = "success") =>
       result.total_candidates <= 3 * result.visited_materials

\* the lookups of both materials returned more recipes than are kept, and the
\* search returned three candidates for each
C23_Witness ==
  /\ pc = "done"
  /\ result.status = "success"
  /\ result.visited_materials = NumFairMaterials
  /\ result.total_candidates = 3 * NumFairMaterials
  /\ MaxRecipes > 3

\* the children a step gave the node it explored: the one the for loop recurses
\* into first, then those it still has to go through
ChildrenAfterStep ==
  IF Len(stack') = Len(stack) + 1
  THEN << [material_id |-> call'.node.material_id, confidence |-> call'.node.confidence] >>
         \o [i \in 1 .. Len(stack'[Len(stack')].pending) |->
               [material_id |-> stack'[Len(stack')].pending[i].material_id,
                confidence |-> stack'[Len(stack')].pending[i].confidence]]
  ELSE << >>

\* the positions, in the list a lookup returned, of the neighbors with
\* confidence >= t * confidence_decay that are not in the visited set (which
\* holds the node itself by then)
AdmittedPositions(list, t, node) ==
  {i \in 1 .. Len(list) :
     /\ list[i][2] * t.den * DecayUnit >= ConfidenceUnit * t.num * tunables.confidence_decay
     /\ list[i][1] \notin visited \cup ({node.material_id} \ {TargetId})}

NeighborCountChain ==
  [i \in 1 .. Len(stack) |-> stack[i].n_neighbors]
    \o (IF call # NoCall THEN << call.n_neighbors >> ELSE << >>)

\* C25: the neighbor count requested for a child is max(5, n_neighbors // 2) of
\* its parent's n_neighbors, and for every n_initial_neighbors >= 1 the requested
\* count never increases from a parent to its child along any path.
C25_NeighborCountNarrows ==
  LET chain == NeighborCountChain IN
  \A i \in 2 .. Len(chain) :
    /\ chain[i] = Max(5, chain[i - 1] \div 2)
    /\ chain[i] <= chain[i - 1]

\* the node is the one made for this neighbor below a node of depth d
MadeFor(node, neighbor_id, neighbor_confidence, d) ==
  /\ node.material_id = neighbor_id
  /\ node.confidence = neighbor_confidence
  /\ node.distance = DistanceOf(neighbor_confidence)
  /\ node.depth = d + 1

\* C26: a node's confidence and distance are the raw confidence and distance of
\* the one neighbor entry by which it was discovered (not a product or a sum
\* along the path), every candidate produced at a node has the node's
\* confidence and distance, and its path_length is the node's depth.
C26_RawEdgeConfidence ==
  /\ [][Running => \A r \in RecipeOutcomes :
          \A s \in SimOutcomes(call.n_neighbors, DOMAIN formulas) :
            (ExploreWith(r, s) /\ Len(stack') = Len(stack) + 1) =>
              \E i \in 1 .. Len(s.list) :
                MadeFor(call'.node, s.list[i][1], s.list[i][2], call.node.depth)]_vars
  /\ [][(Running /\ call' # NoCall /\ Len(stack') <= Len(stack)) =>
          LET f == stack'[Len(stack')]
              before == stack[Len(stack')].pending IN
          /\ before # << >>
          /\ MadeFor(call'.node, before[1].material_id, before[1].confidence, f.node.depth)]_vars
  /\ [][Running =>
          \A i \in Len(recipe_candidates) + 1 .. Len(recipe_candidates') :
            /\ recipe_candidates'[i].material_id = call.node.material_id
            /\ recipe_candidates'[i].confidence = call.node.confidence
            /\ recipe_candidates'[i].distance = call.node.distance
            /\ recipe_candidates'[i].path_length = call.node.depth]_vars
  /\ [](\A i \in 1 .. Len(stack) : \A j \in 1 .. Len(stack[i].pending) :
          /\ stack[i].pending[j].confidence \in ConfLevels
          /\ stack[i].pending[j].distance = DistanceOf(stack[i].pending[j].confidence))

\* material 2 was discovered with confidence 0.99 below material 1, itself
\* discovered with confidence 0.85: its candidates carry 0.99 and path_length 2
C26_Witness ==
  /\ pc = "running"
  /\ \E i, j \in 1 .. Len(recipe_candidates) :
       /\ recipe_candidates[i].material_id = 1
       /\ recipe_candidates[i].confidence = 850
       /\ recipe_candidates[i].path_length = 1
       /\ recipe_candidates[j].material_id = 2
       /\ recipe_candidates[j].confidence = 990
       /\ recipe_candidates[j].distance = DistanceOf(990)
       /\ recipe_candidates[j].path_length = 2

\* confidence_decay to the power k, as a fraction
RECURSIVE DecayPower(_)
DecayPower(k) ==
  IF k = 0 THEN One
  ELSE Fraction(DecayPower(k - 1).num * tunables.confidence_decay,
                DecayPower(k - 1).den * DecayUnit)

\* C27 as stated: the minimum confidence a neighbor needs to be admitted as a
\* child at depth d+1 is never lower than the minimum needed at depth d (so a
\* child at depth d+1 also meets the bar its parent had to meet).
C27_Original ==
  /\ LET chain == ThresholdChain IN
     \A i \in 2 .. Len(chain) :
       ~ScoreLess(AdmissionThreshold(chain[i]), AdmissionThreshold(chain[i - 1]))
  /\ (call # NoCall /\ Len(stack) >= 2) =>
       AtLeast(call.node.confidence,
               AdmissionThreshold(stack[Len(stack) - 1].confidence_threshold))

\* C27 amended: the admission bar loosens with depth: the minimum confidence a
\* neighbor needs to be admitted as a child at depth d+1 is confidence_decay
\* times the minimum needed at depth d, confidence_decay^(d+1) in all, hence
\* strictly lower; the children of a node of depth d are neighbors of at least
\* that confidence, and every unvisited neighbor of at least that confidence is
\* a child unless max_neighbors_per_level children came before it.
C27_BarLoosens ==
  /\ [](call # NoCall =>
          /\ AdmissionThreshold(call.confidence_threshold) = DecayPower(call.node.depth + 1)
          /\ ScoreLess(DecayPower(call.node.depth + 1), DecayPower(call.node.depth))
          /\ DecayPower(call.node.depth + 1).num * DecayPower(call.node.depth).den * DecayUnit
               = DecayPower(call.node.depth).num * tunables.confidence_decay
                   * DecayPower(call.node.depth + 1).den)
  /\ [][Running => \A r \in RecipeOutcomes :
          \A s \in SimOutcomes(call.n_neighbors, DOMAIN formulas) :
            (ExploreWith(r, s) /\ ~s.raised) =>
              LET bar == DecayPower(call.node.depth + 1)
                  children == ChildrenAfterStep IN
              /\ \A j \in 1 .. Len(children) : AtLeast(children[j].confidence, bar)
              /\ \A i \in 1 .. Len(s.list) :
                   (/\ AtLeast(s.list[i][2], bar)
                    /\ s.list[i][1] \notin visited'
                    /\ Len(children) < tunables.max_neighbors_per_level)
                   => \E j \in 1 .. Len(children) :
                        children[j].material_id = s.list[i][1]]_vars

\* below a first-level node, admitted at the bar of 0.85, a neighbor of
\* confidence 0.75 is admitted as a second-level node
C27_Witness ==
  /\ call # NoCall
  /\ call.node.depth = 2
  /\ call.node.confidence = 750
  /\ stack[2].node.confidence >= 850
  /\ ~AtLeast(call.node.confidence, DecayPower(1))

\* C28: with the default tunables every node that passed the admission filter
\* and lies at a depth below max_depth has confidence >= 0.7225 > min_confidence,
\* so the confidence check never stops a node the depth check did not stop.
C28_ConfidenceCheckIdle ==
  /\ []((tunables = DefaultTunables /\ call # NoCall
          /\ call.node.depth < tunables.max_depth) =>
          /\ call.node.confidence * 10000 >= 7225 * ConfidenceUnit
          /\ call.node.confidence > tunables.min_confidence)
  /\ [](tunables = DefaultTunables => last.msg # "confidence_too_low")
  /\ [][tunables = DefaultTunables => ~TerminateConfidence]_vars

\* with the default tunables a neighbor of confidence 0.65, below min_confidence,
\* was admitted at depth 3, where the depth check is the one that stops it
C28_Witness ==
  /\ tunables = DefaultTunables
  /\ call # NoCall
  /\ call.node.depth = tunables.max_depth
  /\ call.node.confidence = 650
  /\ call.node.confidence < tunables.min_confidence

\* C29: a node at depth max_depth is never marked visited and never has its
\* recipes looked up, so every visited material was reached at a depth of at
\* most max_depth - 1 and every candidate has path_length <= max_depth - 1; with
\* max_depth <= 1 no recipe lookup is ever made and every search returns
\* no_recipes_found with visited_materials = 0.
C29_DeepestNodesUntouched ==
  /\ [][(Running /\ call.node.depth = tunables.max_depth) =>
          /\ visited' = visited
          /\ recipe_candidates' = recipe_candidates
          /\ explore_count' = explore_count
          /\ recipe_raised' = recipe_raised
          /\ last'.msg = "max_depth_reached"]_vars
  /\ [][(Running /\ (visited' # visited \/ explore_count' # explore_count
                       \/ recipe_raised' # recipe_raised)) =>
          call.node.depth <= tunables.max_depth - 1]_vars
  /\ [](\A i \in 1 .. Len(recipe_candidates) :
          recipe_candidates[i].path_length <= tunables.max_depth - 1)
  /\ [](tunables.max_depth <= 1 =>
          /\ visited = {}
          /\ recipe_candidates = << >>
          /\ ~recipe_raised
          /\ \A m \in DOMAIN explore_count : explore_count[m] = 0
          /\ pc = "done" =>
               (result.status = "no_recipes_found" /\ result.visited_materials = 0))

\* an engine of max_depth 1 got neighbors for the target, stopped each of them
\* at the depth check, and returned no_recipes_found with no material visited
C29_Witness ==
  /\ tunables.max_depth = 1
  /\ pc = "done"
  /\ last.msg = "max_depth_reached"
  /\ last.depth = 1
  /\ last.material_id # TargetId
  /\ result.status = "no_recipes_found"
  /\ result.visited_materials = 0

\* num_recipes of the first n recommendations, added up
RECURSIVE RecipesRecommended(_, _)
RecipesRecommended(recs, n) ==
  IF n = 0 THEN 0 ELSE recs[n].num_recipes + RecipesRecommended(recs, n - 1)

\* C30: in every success result the recommendations have pairwise distinct
\* source_material formulas, there are min(5, unique_materials_with_recipes) of
\* them, 1 <= unique_materials_with_recipes <= visited_materials, and their
\* num_recipes add up to at most total_candidates.
C30_ResultCounts ==
  (pc = "done" /\ result.status = "success") =>
    LET recs == result.recommendations IN
    /\ \A i, j \in 1 .. Len(recs) :
         i # j => recs[i].source_material # recs[j].source_material
    /\ Len(recs) = Min(5, result.unique_materials_with_recipes)
    /\ 1 <= result.unique_materials_with_recipes
    /\ result.unique_materials_with_recipes <= result.visited_materials
    /\ \A i \in 1 .. Len(recs) : recs[i].num_recipes >= 1
    /\ RecipesRecommended(recs, Len(recs)) <= result.total_candidates

\* seven materials of six formulas have recipes: five formulas are recommended,
\* and the recipes of the sixth are in total_candidates only
C30_Witness ==
  /\ pc = "done"
  /\ result.status = "success"
  /\ result.visited_materials = NumAggMaterials
  /\ result.unique_materials_with_recipes = NumAggMaterials - 1
  /\ Len(result.recommendations) = 5
  /\ RecipesRecommended(result.recommendations, 5) < result.total_candidates

====
